---- MODULE Spec2Model ----
(***************************************************************************)
(* A model of dispatcher/service/pool.py: the autoscaling WorkerPool and   *)
(* its PoolWorker records.                                                 *)
(*                                                                         *)
(* Scheduling.  The pool runs on one asyncio event loop.  A coroutine      *)
(* gives up the loop only where an await really suspends: the read of the  *)
(* results channel, asyncio.wait_for / asyncio.sleep, the forking lock,    *)
(* the await of another task.  asyncio.Lock.acquire returns without        *)
(* suspending when the lock is free, and no critical section of pool.py    *)
(* contains a suspending await, so management_lock is free at every        *)
(* suspension and each action below is the code between two suspensions.   *)
(*                                                                         *)
(* Time.  Every timestamp (started_at, stopping_at, retired_at,            *)
(* last_used_by_ct[k]) is kept as "set or not"; a comparison of elapsed    *)
(* time with a configured wait is a nondeterministic choice.               *)
(*                                                                         *)
(* Worker subprocesses are the environment: a process sends ready once it  *)
(* has booted, then serves its inbound channel in order (a task ends in a  *)
(* done, the stop sentinel in a shutdown and the exit of the process), and *)
(* it may die at any moment.                                               *)
(***************************************************************************)
EXTENDS Integers, Sequences, FiniteSets, TLC

\* ------------------------------------------------------------------ bounds
MaxMsgs == 2          \* calls of dispatch by producers
MaxPolicyMsgs == 3    \* calls of dispatch by producers in the policy runs
MaxFifoMsgs == 4      \* calls of dispatch by producers in the queue-order runs
MaxWorkerIds == 2     \* calls of up(): worker ids are 0 .. MaxWorkerIds-1
MaxScaleIds == 3      \* calls of up() in the runs that scale down and up again
MaxDeaths == 1        \* worker processes killed from outside
MaxShutdowns == 2     \* calls of shutdown() in the runs that repeat it
MaxBackMsgs == 5      \* calls of dispatch by producers in the backpressure runs

\* --------------------------------------------------------------- messages
Tasks == {"t"}
ArgsSet == {0, 1}
KwargsSet == {0}
Policies == {"parallel", "serial", "queue_one", "discard", "bogus"}

\* current_task = None
NoTask == [uuid |-> 0, task |-> "none", args |-> 0, kwargs |-> 0,
           on_duplicate |-> "none", timeout |-> FALSE]

\* A task message as the pool reads it: the (task, args, kwargs) triple, the
\* duplicate policy, whether it carries a timeout.  uuid stands for the
\* identity of the dict object (the `is` of _duplicate_in_list).
Message(u, t, a, k, p, to) ==
  [uuid |-> u, task |-> t, args |-> a, kwargs |-> k, on_duplicate |-> p, timeout |-> to]

VARIABLES
  pool,          \* the WorkerPool object (fields as in __init__) and its workers,
                 \* with the history of the accepted messages (accepted, fate,
                 \* overtaken), which no operation reads
  finished_queue,\* process_manager.finished_queue: the shared outbound channel
  results_task,  \* position of read_results_forever
  management,    \* position and locals of manage_workers
  shutdown_call, \* position and locals of shutdown()
  cfg            \* constructor arguments and the run's budgets

vars == <<pool, finished_queue, results_task, management, shutdown_call, cfg>>

\* ------------------------------------------------------------ PoolWorker
Statuses == {"initialized", "spawned", "starting", "ready", "stopping",
             "exited", "error", "retired"}

\* PoolWorker.__init__; process is the ProcessProxy: its subprocess
\* ("none" = never started, so pid is None), its inbound message_queue and
\* whether SIGUSR1 reached the task it is running.
NewWorker(id) ==
  [worker_id |-> id, current_task |-> NoTask, started_at |-> FALSE,
   stopping_at |-> FALSE, retired_at |-> FALSE, is_active_cancel |-> FALSE,
   finished_count |-> 0, status |-> "initialized", exit_msg_event |-> FALSE,
   process |-> [state |-> "none", message_queue |-> <<>>, sigusr1 |-> FALSE]]

counts_for_capacity(w) == w.status \in {"initialized", "spawned", "starting", "ready"}

inactive(w) == w.status \in {"exited", "error", "initialized"}

is_alive(w) == w.process.state \in {"booting", "idle", "running"}

\* PoolWorker.cancel applied to a worker record
cancel(w) ==
  [w EXCEPT !.is_active_cancel = TRUE,
            !.process.sigusr1 = IF w.process.state = "running" THEN TRUE ELSE @]

\* PoolWorker.signal_stop
signal_stop(w) ==
  LET w1 == [w EXCEPT !.process.message_queue = Append(@, "stop")]
      w2 == IF w1.current_task # NoTask THEN cancel(w1) ELSE w1
  IN [w2 EXCEPT !.status = "stopping", !.stopping_at = TRUE]

\* PoolWorker.start_task
start_task(w, message) ==
  [w EXCEPT !.current_task = message,
            !.process.message_queue = Append(@, "task"),
            !.started_at = TRUE]

\* PoolWorker.mark_finished_task
mark_finished_task(w) ==
  [w EXCEPT !.is_active_cancel = FALSE, !.current_task = NoTask,
            !.started_at = FALSE, !.finished_count = @ + 1]

\* next_wakeup without its test of is_active_cancel
next_wakeup_after_cancel(w) ==
  w.current_task # NoTask /\ w.current_task.timeout /\ w.started_at

\* PoolWorker.next_wakeup: TRUE when a wakeup time is returned
next_wakeup(w) ==
  IF w.is_active_cancel THEN FALSE
  ELSE w.current_task # NoTask /\ w.current_task.timeout /\ w.started_at

\* ------------------------------------------------------------ WorkerPool
Fleet(P) == DOMAIN P.workers

Busy(P) == {i \in Fleet(P) : P.workers[i].current_task # NoTask}

processed_count(P) == P.finished_count + P.canceled_count + P.discard_count

received_count(P) == processed_count(P) + Len(P.queued_messages) + Cardinality(Busy(P))

get_running_count(P) == Cardinality(Busy(P))

Available(P) == {i \in Fleet(P) : counts_for_capacity(P.workers[i])}

\* get_free_worker: the first worker, in the dict's (creation) order, that is
\* ready and holds no task; -1 for None
FreeWorkers(P) ==
  {i \in Fleet(P) : P.workers[i].current_task = NoTask /\ P.workers[i].status = "ready"}

Min(S) == CHOOSE x \in S : \A y \in S : x <= y

\* get_free_worker without its test of the status
get_idle_worker(P) ==
  LET idle == {i \in Fleet(P) : P.workers[i].current_task = NoTask}
  IN IF idle = {} THEN -1 ELSE Min(idle)

get_free_worker(P) == IF FreeWorkers(P) = {} THEN -1 ELSE Min(FreeWorkers(P))

\* _duplicate_in_list: another object with an equal (task, args, kwargs)
SameTriple(a, b) == a.task = b.task /\ a.args = b.args /\ a.kwargs = b.kwargs

Duplicate(message, other) == other.uuid # message.uuid /\ SameTriple(other, message)

\* already_running that finds no duplicate
never_running(P, message) == FALSE

already_running(P, message) ==
  \E i \in Busy(P) : Duplicate(message, P.workers[i].current_task)

\* already_queued that finds no duplicate
never_queued(P, message) == FALSE

already_queued(P, message) ==
  \E n \in 1..Len(P.queued_messages) : Duplicate(message, P.queued_messages[n])

\* get_blocking_action with the two tests of queue_one in the other order
queue_one_running_first(P, message) ==
  IF message.on_duplicate = "serial"
    THEN IF already_running(P, message) THEN "queue" ELSE "run"
  ELSE IF message.on_duplicate = "discard"
    THEN IF already_running(P, message) \/ already_queued(P, message)
           THEN "discard" ELSE "run"
  ELSE IF message.on_duplicate = "queue_one"
    THEN IF already_running(P, message) THEN "queue"
         ELSE IF already_queued(P, message) THEN "discard" ELSE "run"
  ELSE "run"

get_blocking_action(P, message) ==
  IF message.on_duplicate = "serial"
    THEN IF already_running(P, message) THEN "queue" ELSE "run"
  ELSE IF message.on_duplicate = "discard"
    THEN IF already_running(P, message) \/ already_queued(P, message)
           THEN "discard" ELSE "run"
  ELSE IF message.on_duplicate = "queue_one"
    THEN IF already_queued(P, message) THEN "discard"
         ELSE IF already_running(P, message) THEN "queue" ELSE "run"
  ELSE "run"

message_is_blocked(P, message) == get_blocking_action(P, message) = "queue"

Unblocked(P) ==
  {n \in 1..Len(P.queued_messages) : ~message_is_blocked(P, P.queued_messages[n])}

\* get_unblocked_message: position of the first unblocked message, 0 for None
get_unblocked_message(P) == IF Unblocked(P) = {} THEN 0 ELSE Min(Unblocked(P))

unblocked_message_ct(P) == Cardinality(Unblocked(P))

active_task_ct(P) == get_running_count(P) + unblocked_message_ct(P)

\* management_lock (an asyncio.Lock), `async with` entered: a free lock is
\* taken without suspending; a held lock makes the caller wait, and within
\* one step of a task the holder is that task itself
acquire(P) ==
  IF P.management_lock THEN [P EXCEPT !.lock_reentered = TRUE]
  ELSE [P EXCEPT !.management_lock = TRUE]

\* management_lock, `async with` left
release(P) == [P EXCEPT !.management_lock = FALSE]

\* post_task_start that leaves last_used_by_ct as it is
post_task_start_keeps_stamp(P, message) == P

\* post_task_start (the kick of the timeout runner changes no pool state)
post_task_start(P, message) ==
  [P EXCEPT !.last_used_by_ct[get_running_count(P)] = FALSE]

\* History: the terminal event of message uuid (a second one is kept as "twice")
Terminal(P, uuid, kind) ==
  IF uuid = 0 THEN P
  ELSE [P EXCEPT !.fate[uuid] = IF @ = "pending" THEN kind ELSE "twice"]

\* History: the queued messages appended before `message` that are eligible to
\* run at the moment `message` is started
Overtaken(P, message) ==
  {P.queued_messages[n].uuid : n \in
     {k \in 1..Len(P.queued_messages) :
        /\ P.queued_messages[k].uuid < message.uuid
        /\ get_blocking_action(P, P.queued_messages[k]) = "run"}}

\* dispatch_task without its shutting_down branch
dispatch_task_while_shutting_down(P, message) ==
  LET blocking_action == get_blocking_action(P, message)
      worker == get_free_worker(P)
      L == acquire(P)
  IN release(
     IF blocking_action = "discard"
       THEN Terminal([L EXCEPT !.discard_count = @ + 1], message.uuid, "discard")
     ELSE IF blocking_action = "queue"
       THEN [L EXCEPT !.queued_messages = Append(@, message)]
     ELSE IF worker # -1
       THEN post_task_start(
              [L EXCEPT !.workers[worker] = start_task(@, message),
                        !.overtaken = @ \cup Overtaken(P, message)],
              message)
     ELSE [L EXCEPT !.queued_messages = Append(@, message),
                    !.management_event = TRUE])

\* dispatch_task: its whole body runs under management_lock
dispatch_task(P, message) ==
  LET blocking_action == get_blocking_action(P, message)
      worker == get_free_worker(P)
      L == acquire(P)
  IN release(
     IF blocking_action = "discard"
       THEN Terminal([L EXCEPT !.discard_count = @ + 1], message.uuid, "discard")
     ELSE IF P.shutting_down
       THEN [L EXCEPT !.queued_messages = Append(@, message)]
     ELSE IF blocking_action = "queue"
       THEN [L EXCEPT !.queued_messages = Append(@, message)]
     ELSE IF worker # -1
       THEN post_task_start(
              [L EXCEPT !.workers[worker] = start_task(@, message),
                        !.overtaken = @ \cup Overtaken(P, message)],
              message)
     ELSE [L EXCEPT !.queued_messages = Append(@, message),
                    !.management_event = TRUE])

RemoveAt(seq, n) == SubSeq(seq, 1, n - 1) \o SubSeq(seq, n + 1, Len(seq))

\* drain_queue: the while loop, work_done carried along
RECURSIVE drain_loop(_, _)
drain_loop(P, work_done) ==
  LET n == get_unblocked_message(P)
  IN IF n = 0
       THEN IF work_done THEN [P EXCEPT !.queue_cleared = TRUE] ELSE P
     ELSE IF get_free_worker(P) = -1 \/ P.shutting_down
       THEN P
     ELSE drain_loop(
            dispatch_task([P EXCEPT !.queued_messages = RemoveAt(@, n)],
                          P.queued_messages[n]),
            TRUE)

\* drain_queue called with management_lock held
drain_queue_under_lock(P) == release(drain_loop(acquire(P), FALSE))

drain_queue(P) == drain_loop(P, FALSE)

\* process_finished that counts a task as canceled whenever a cancel was sent
process_finished_by_flag(P, id, result) ==
  LET worker == P.workers[id]
      running_ct == get_running_count(P)
      canceled == worker.is_active_cancel
      P1 == acquire([P EXCEPT !.last_used_by_ct[running_ct] = TRUE])
      P2 == IF canceled THEN [P1 EXCEPT !.canceled_count = @ + 1]
            ELSE [P1 EXCEPT !.finished_count = @ + 1]
      P3 == release(Terminal([P2 EXCEPT !.workers[id] = mark_finished_task(@)],
                             worker.current_task.uuid,
                             IF canceled THEN "canceled" ELSE "finished"))
  IN IF P3.queued_messages = <<>> /\ Busy(P3) = {}
       THEN [P3 EXCEPT !.work_cleared = TRUE]
     ELSE P3

\* process_finished for the done message of worker id with the given result
process_finished(P, id, result) ==
  LET worker == P.workers[id]
      running_ct == get_running_count(P)
      canceled == worker.is_active_cancel /\ result = "<cancel>"
      P1 == acquire([P EXCEPT !.last_used_by_ct[running_ct] = TRUE])
      P2 == IF canceled THEN [P1 EXCEPT !.canceled_count = @ + 1]
            ELSE [P1 EXCEPT !.finished_count = @ + 1]
      P3 == release(Terminal([P2 EXCEPT !.workers[id] = mark_finished_task(@)],
                             worker.current_task.uuid,
                             IF canceled THEN "canceled" ELSE "finished"))
  IN IF P3.queued_messages = <<>> /\ Busy(P3) = {}
       THEN [P3 EXCEPT !.work_cleared = TRUE]
     ELSE P3

\* up() with the smallest id that no worker of the fleet has
up_smallest_free_id(P) ==
  LET id == Min({i \in 0..P.next_worker_id : i \notin Fleet(P)})
  IN [P EXCEPT !.workers = [i \in Fleet(P) \cup {id} |->
                              IF i \in Fleet(P) THEN P.workers[i] ELSE NewWorker(id)],
               !.next_worker_id = @ + 1]

\* up(): the new worker's id is next_worker_id
up(P) ==
  [P EXCEPT !.workers = [i \in Fleet(P) \cup {P.next_worker_id} |->
                           IF i \in Fleet(P) THEN P.workers[i]
                           ELSE NewWorker(P.next_worker_id)],
            !.next_worker_id = @ + 1]

\* ---------------------------------------------------- PoolWorker.start/stop
\* PoolWorker.start: process.start() raises or forks the subprocess
start(w, spawn_ok) ==
  IF w.status # "initialized" THEN w
  ELSE IF spawn_ok
    THEN [w EXCEPT !.status = "starting", !.process.state = "booting"]
  ELSE [w EXCEPT !.status = "error"]

\* PoolWorker.stop from its join() on: the process is gone (retired), or it is
\* alive and the coroutine sleeps before it kills.  next is where the caller
\* of stop() stands afterwards.
stop_join(w) ==
  IF is_alive(w) THEN [worker |-> w, next |-> "kill"]
  ELSE [worker |-> [w EXCEPT !.status = "retired", !.retired_at = TRUE],
        next |-> "done"]

\* PoolWorker.stop up to its first suspension
stop_enter(w) ==
  IF w.status \in {"retired", "error"} THEN [worker |-> w, next |-> "done"]
  ELSE LET w1 == IF w.status \notin {"stopping", "exited"} THEN signal_stop(w) ELSE w
       IN IF w1.status # "exited"
            THEN [worker |-> w1, next |-> "wait"]
          ELSE stop_join([w1 EXCEPT !.exit_msg_event = FALSE])

\* PoolWorker.stop resumed from wait_for(exit_msg_event.wait(), 3): the event
\* was set, or the wait timed out
stop_after_wait(w) ==
  IF w.exit_msg_event THEN stop_join([w EXCEPT !.exit_msg_event = FALSE])
  ELSE stop_join([w EXCEPT !.status = "error"])

\* PoolWorker.stop resumed from its sleep: process.kill(), after which the
\* process is gone (retired) or has survived every attempt (error)
stop_after_kill(w, survived) ==
  IF survived
    THEN [w EXCEPT !.status = "error", !.retired_at = TRUE]
  ELSE [w EXCEPT !.status = "retired", !.retired_at = TRUE, !.process.state = "dead"]

\* ------------------------------------------------------- management task
\* should_scale_down: last_used_by_ct[worker_ct] is set and older than
\* scaledown_wait (elapsed)
should_scale_down(P, elapsed) ==
  LET worker_ct == Cardinality(Available(P))
  IN P.last_used_by_ct[worker_ct] /\ elapsed

RECURSIVE up_times(_, _)
up_times(P, n) == IF n = 0 THEN P ELSE up_times(up(P), n - 1)

IdleAvailable(P) == {i \in Available(P) : P.workers[i].current_task = NoTask}

\* scale_workers without its first branch, the scale-up to min_workers
scale_workers_without_min(P, c, elapsed) ==
  LET worker_ct == Cardinality(Available(P))
  IN IF active_task_ct(P) > worker_ct
       THEN IF worker_ct < c.max_workers THEN up(P) ELSE P
     ELSE IF worker_ct > c.min_workers
       THEN release(
            IF should_scale_down(P, elapsed) /\ IdleAvailable(P) # {}
              THEN [acquire(P) EXCEPT !.workers[Min(IdleAvailable(P))] = signal_stop(@)]
            ELSE acquire(P))
     ELSE P

\* scale_workers with a scale-down that does not compare with min_workers
scale_workers_below_min(P, c, elapsed) ==
  LET worker_ct == Cardinality(Available(P))
  IN IF worker_ct < c.min_workers
       THEN up_times(P, c.min_workers - worker_ct)
     ELSE IF active_task_ct(P) > worker_ct
       THEN IF worker_ct < c.max_workers THEN up(P) ELSE P
     ELSE release(
          IF should_scale_down(P, elapsed) /\ IdleAvailable(P) # {}
            THEN [acquire(P) EXCEPT !.workers[Min(IdleAvailable(P))] = signal_stop(@)]
          ELSE acquire(P))

\* scale_workers
scale_workers(P, c, elapsed) ==
  LET worker_ct == Cardinality(Available(P))
  IN IF worker_ct < c.min_workers
       THEN up_times(P, c.min_workers - worker_ct)
     ELSE IF active_task_ct(P) > worker_ct
       THEN IF worker_ct < c.max_workers THEN up(P) ELSE P
     ELSE IF worker_ct > c.min_workers
       THEN release(
            IF should_scale_down(P, elapsed) /\ IdleAvailable(P) # {}
              THEN [acquire(P) EXCEPT !.workers[Min(IdleAvailable(P))] = signal_stop(@)]
            ELSE acquire(P))
     ELSE P

\* How many workers scale_workers creates
UpsNeeded(P, c) ==
  LET worker_ct == Cardinality(Available(P))
  IN IF worker_ct < c.min_workers THEN c.min_workers - worker_ct
     ELSE IF active_task_ct(P) > worker_ct /\ worker_ct < c.max_workers THEN 1
     ELSE 0

\* manage_old_workers, the removal loop: each id is deleted under the lock
RECURSIVE remove_workers(_, _)
remove_workers(P, remove_ids) ==
  IF remove_ids = {} THEN P
  ELSE LET id == Min(remove_ids)
           L == acquire(P)
       IN remove_workers(
            release([L EXCEPT !.workers = [i \in Fleet(P) \ {id} |-> P.workers[i]]]),
            remove_ids \ {id})

\* manage_old_workers from the worker at position `from` of the iteration to
\* its next suspension or its end.  old is the set of workers whose
\* stopping_at / retired_at is older than worker_stop_wait /
\* worker_removal_wait.  The result is the loop's state: pc "old_wait" or
\* "old_kill" inside stop() of worker w, or "wait" after the removal loop.
RECURSIVE manage_old_workers(_, _, _, _)
manage_old_workers(P, from, remove_ids, old) ==
  LET rest == {i \in Fleet(P) : i >= from}
  IN IF rest = {}
       THEN [pool |-> remove_workers(P, remove_ids), pc |-> "wait", w |-> 0,
             remove_ids |-> {}]
     ELSE
       LET id == Min(rest)
           worker == P.workers[id]
       IN IF worker.status = "exited"
               \/ (worker.status = "stopping" /\ worker.stopping_at /\ id \in old)
            THEN LET r == stop_enter(worker)
                     P1 == [P EXCEPT !.workers[id] = r.worker]
                 IN IF r.next = "done"
                      THEN manage_old_workers(P1, id + 1, remove_ids, old)
                    ELSE [pool |-> P1, pc |-> "old_" \o r.next, w |-> id,
                          remove_ids |-> remove_ids]
          ELSE IF worker.status \in {"retired", "error"} /\ worker.retired_at
                    /\ id \in old
            THEN manage_old_workers(P, id + 1, remove_ids \cup {id}, old)
          ELSE manage_old_workers(P, id + 1, remove_ids, old)

Initialized(P) == {i \in Fleet(P) : P.workers[i].status = "initialized"}

\* manage_workers after scale_workers and after each start(): suspended at the
\* forking lock for the next initialized worker, or on into manage_old_workers
AfterNewWorkers(P, from, old) ==
  LET todo == {i \in Initialized(P) : i >= from}
  IN IF todo # {}
       THEN [pool |-> P, pc |-> "new", w |-> Min(todo), remove_ids |-> {}]
     ELSE manage_old_workers(P, 0, {}, old)

IdsLeft == cfg.ids - pool.next_worker_id

\* The workers whose age the management task may find greater than
\* worker_stop_wait or worker_removal_wait: their stopping_at or retired_at
\* was set before this pass, and worker_stop_wait is one that can run out
Stamped(P) ==
  {i \in Fleet(P) : \/ P.workers[i].retired_at
                    \/ P.workers[i].stopping_at /\ cfg.stop_wait_expires}

\* manage_workers: one turn of the while loop, from the wake-up out of the
\* wait on management_event to the first suspension of the pass
ManagePass ==
  /\ management.pc = "wait"
  /\ \E P0 \in {[pool EXCEPT !.management_event = FALSE]} :
       IF P0.shutting_down
         THEN /\ pool' = P0
              /\ management' = [management EXCEPT !.pc = "done"]
       ELSE /\ UpsNeeded(P0, cfg) <= IdsLeft
            /\ \E elapsed \in BOOLEAN, old \in SUBSET Stamped(P0) :
                 \E P1 \in {scale_workers(P0, cfg, elapsed)} :
                   \E r \in {AfterNewWorkers(P1, 0, old)} :
                     /\ pool' = r.pool
                     /\ management' = [pc |-> r.pc, w |-> r.w, remove_ids |-> r.remove_ids]
  /\ UNCHANGED <<finished_queue, results_task, shutdown_call, cfg>>

\* manage_new_workers: start() of the worker the loop holds, under the
\* forking lock, then drain_queue
ManageNewWorker ==
  /\ management.pc = "new"
  /\ \E spawn_ok \in cfg.spawn_ok, old \in SUBSET Stamped(pool) :
       \E P1 \in {drain_queue([pool EXCEPT !.workers[management.w] = start(@, spawn_ok)])} :
         \E r \in {AfterNewWorkers(P1, management.w + 1, old)} :
           /\ pool' = r.pool
           /\ management' = [pc |-> r.pc, w |-> r.w, remove_ids |-> r.remove_ids]
  /\ UNCHANGED <<finished_queue, results_task, shutdown_call, cfg>>

\* manage_old_workers: stop() of the worker the loop holds comes back from its
\* wait for the exit message
ManageStopWaited ==
  /\ management.pc = "old_wait"
  /\ \E old \in SUBSET Stamped(pool) :
       \E s \in {stop_after_wait(pool.workers[management.w])} :
         \E P1 \in {[pool EXCEPT !.workers[management.w] = s.worker]} :
           \E r \in {IF s.next = "kill"
                       THEN [pool |-> P1, pc |-> "old_kill", w |-> management.w,
                             remove_ids |-> management.remove_ids]
                     ELSE manage_old_workers(P1, management.w + 1,
                                             management.remove_ids, old)} :
             /\ pool' = r.pool
             /\ management' = [pc |-> r.pc, w |-> r.w, remove_ids |-> r.remove_ids]
  /\ UNCHANGED <<finished_queue, results_task, shutdown_call, cfg>>

\* manage_old_workers: stop() of the worker the loop holds comes back from its
\* sleep and kills the process
ManageStopKilled ==
  /\ management.pc = "old_kill"
  /\ \E survived \in cfg.survived, old \in SUBSET Stamped(pool) :
       \E P1 \in {[pool EXCEPT !.workers[management.w] = stop_after_kill(@, survived)]} :
         \E r \in {manage_old_workers(P1, management.w + 1, management.remove_ids, old)} :
           /\ pool' = r.pool
           /\ management' = [pc |-> r.pc, w |-> r.w, remove_ids |-> r.remove_ids]
  /\ UNCHANGED <<finished_queue, results_task, shutdown_call, cfg>>

\* ------------------------------------------------------------ results task
Event(id, event, result) == [worker |-> id, event |-> event, result |-> result]

StopSentinel == Event(-1, "stop", "none")

\* read_results_forever: one message of the outbound channel.  The result is
\* the pool and where the task stands afterwards.
read_results(P, message) ==
  IF message = StopSentinel
    THEN [pool |-> P, task |-> IF P.shutting_down THEN "returned" ELSE "reading"]
  ELSE IF message.worker \notin Fleet(P)
    THEN [pool |-> P, task |-> "crashed"]       \* self.workers[worker_id]: KeyError
  ELSE IF message.event = "ready"
    THEN LET P1 == [P EXCEPT !.workers[message.worker].status = "ready"]
             P2 == IF \A i \in Fleet(P1) : P1.workers[i].status = "ready"
                     THEN [P1 EXCEPT !.workers_ready = TRUE] ELSE P1
         IN [pool |-> drain_queue(P2), task |-> "reading"]
  ELSE IF message.event = "shutdown"
    THEN LET P1 == release([acquire(P) EXCEPT
                              !.workers[message.worker].status = "exited",
                              !.workers[message.worker].exit_msg_event = TRUE])
         IN IF P1.shutting_down
              THEN [pool |-> P1,
                    task |-> IF \A i \in Fleet(P1) : inactive(P1.workers[i])
                               THEN "returned" ELSE "reading"]
            ELSE [pool |-> [P1 EXCEPT !.management_event = TRUE], task |-> "reading"]
  ELSE [pool |-> drain_queue(process_finished(P, message.worker, message.result)),
        task |-> "reading"]

ReadResult ==
  /\ results_task = "reading"
  /\ finished_queue # <<>>
  /\ LET r == read_results(pool, Head(finished_queue))
     IN /\ pool' = r.pool
        /\ results_task' = r.task
  /\ finished_queue' = Tail(finished_queue)
  /\ UNCHANGED <<management, shutdown_call, cfg>>

\* --------------------------------------------------------------- producers
\* dispatch_task called by a producer with a new message
Dispatch ==
  /\ Len(pool.accepted) < cfg.msgs
  /\ shutdown_call.pc \notin {"done", "raised"}
  /\ \E t \in Tasks, a \in cfg.args, k \in KwargsSet, p \in cfg.policies, to \in cfg.timeouts :
       LET message == Message(Len(pool.accepted) + 1, t, a, k, p, to)
       IN pool' = dispatch_task([pool EXCEPT !.accepted = Append(@, message),
                                             !.fate = Append(@, "pending")],
                                message)
  /\ UNCHANGED <<finished_queue, results_task, management, shutdown_call, cfg>>

\* ------------------------------------------------------------ cancellation
\* cancel_worker
cancel_worker(P, id) ==
  IF P.workers[id].current_task = NoTask \/ ~P.workers[id].started_at THEN P
  ELSE [P EXCEPT !.workers[id] = cancel(@)]

\* The timeout runner calls cancel_worker for a worker whose wakeup has passed
TimeoutCancel ==
  /\ shutdown_call.pc = "idle"
  /\ \E id \in Fleet(pool) :
       /\ next_wakeup(pool.workers[id])
       /\ pool' = cancel_worker(pool, id)
  /\ UNCHANGED <<finished_queue, results_task, management, shutdown_call, cfg>>

\* The control plane cancels the task of a busy worker
ControlCancel ==
  /\ cfg.control
  /\ \E id \in Busy(pool) :
       /\ ~pool.workers[id].is_active_cancel
       /\ pool' = cancel_worker(pool, id)
  /\ UNCHANGED <<finished_queue, results_task, management, shutdown_call, cfg>>

\* ------------------------------------------------------ worker subprocesses
\* The callback message of a started subprocess
WorkerReady ==
  /\ \E id \in Fleet(pool) :
       /\ pool.workers[id].process.state = "booting"
       /\ pool' = [pool EXCEPT !.workers[id].process.state = "idle"]
       /\ finished_queue' = Append(finished_queue, Event(id, "ready", "none"))
  /\ UNCHANGED <<results_task, management, shutdown_call, cfg>>

\* The subprocess takes a task from its inbound channel
WorkerTakesTask ==
  /\ \E id \in Fleet(pool) :
       LET process == pool.workers[id].process
       IN /\ process.state = "idle"
          /\ process.message_queue # <<>>
          /\ Head(process.message_queue) = "task"
          /\ pool' = [pool EXCEPT !.workers[id].process =
                        [state |-> "running", message_queue |-> Tail(process.message_queue),
                         sigusr1 |-> FALSE]]
  /\ UNCHANGED <<finished_queue, results_task, management, shutdown_call, cfg>>

\* The subprocess takes the stop sentinel: it reports shutdown and exits
WorkerTakesStop ==
  /\ \E id \in Fleet(pool) :
       LET process == pool.workers[id].process
       IN /\ process.state = "idle"
          /\ process.message_queue # <<>>
          /\ Head(process.message_queue) = "stop"
          /\ pool' = [pool EXCEPT !.workers[id].process =
                        [state |-> "dead", message_queue |-> Tail(process.message_queue),
                         sigusr1 |-> FALSE]]
          /\ finished_queue' = Append(finished_queue, Event(id, "shutdown", "none"))
  /\ UNCHANGED <<results_task, management, shutdown_call, cfg>>

\* The subprocess ends its task: '<cancel>' when SIGUSR1 interrupted it
WorkerDone ==
  /\ \E id \in Fleet(pool) :
       LET process == pool.workers[id].process
       IN /\ process.state = "running"
          /\ pool' = [pool EXCEPT !.workers[id].process.state = "idle",
                                  !.workers[id].process.sigusr1 = FALSE]
          /\ finished_queue' = Append(finished_queue,
               Event(id, "done", IF process.sigusr1 THEN "<cancel>" ELSE "ok"))
  /\ UNCHANGED <<results_task, management, shutdown_call, cfg>>

\* The subprocess is killed from outside the pool
WorkerDies ==
  /\ pool.deaths < cfg.deaths
  /\ \E id \in Fleet(pool) :
       /\ is_alive(pool.workers[id])
       /\ pool' = [pool EXCEPT !.workers[id].process.state = "dead",
                               !.workers[id].process.sigusr1 = FALSE,
                               !.deaths = @ + 1]
  /\ UNCHANGED <<finished_queue, results_task, management, shutdown_call, cfg>>

\* ----------------------------------------------------------------- shutdown
\* shutdown(): shutting_down and management_event are set, then the call
\* awaits the timeout runner's shutdown.  The host may call shutdown() again
\* once the call before has returned.
ShutdownBegin ==
  /\ cfg.shutdowns
  /\ shutdown_call.calls < cfg.calls
  /\ shutdown_call.pc \in {"idle", "done"}
  /\ pool' = [pool EXCEPT !.shutting_down = TRUE, !.management_event = TRUE]
  /\ shutdown_call' = [shutdown_call EXCEPT !.pc = "begun", !.calls = @ + 1]
  /\ UNCHANGED <<finished_queue, results_task, management, cfg>>

\* stop_workers: signal_stop for every worker, then one stop() per worker is
\* gathered
stop_workers(P) == [P EXCEPT !.workers = [i \in Fleet(P) |-> signal_stop(P.workers[i])]]

ShutdownStopWorkers ==
  /\ shutdown_call.pc = "begun"
  /\ pool' = stop_workers(pool)
  /\ shutdown_call' = [shutdown_call EXCEPT !.pc = "gather",
                                           !.stops = [i \in Fleet(pool) |-> "begin"]]
  /\ UNCHANGED <<finished_queue, results_task, management, cfg>>

\* One of the gathered stop() coroutines runs to its next suspension.  A
\* worker the management task has deleted meanwhile is no longer in the pool.
ShutdownStopStep ==
  /\ shutdown_call.pc = "gather"
  /\ \E id \in DOMAIN shutdown_call.stops, survived \in BOOLEAN :
       LET at == shutdown_call.stops[id]
           r == IF at = "begin" THEN stop_enter(pool.workers[id])
                ELSE IF at = "wait" THEN stop_after_wait(pool.workers[id])
                ELSE [worker |-> stop_after_kill(pool.workers[id], survived),
                      next |-> "done"]
       IN /\ at # "done"
          /\ IF id \in Fleet(pool)
               THEN /\ pool' = [pool EXCEPT !.workers[id] = r.worker]
                    /\ shutdown_call' = [shutdown_call EXCEPT !.stops[id] = r.next]
             ELSE /\ pool' = pool
                  /\ shutdown_call' = [shutdown_call EXCEPT !.stops[id] = "done"]
  /\ UNCHANGED <<finished_queue, results_task, management, cfg>>

\* shutdown() after the gather: the stop sentinel goes to the outbound
\* channel and the call awaits the results task
ShutdownGathered ==
  /\ shutdown_call.pc = "gather"
  /\ \A id \in DOMAIN shutdown_call.stops : shutdown_call.stops[id] = "done"
  /\ finished_queue' = Append(finished_queue, StopSentinel)
  /\ shutdown_call' = [shutdown_call EXCEPT !.pc = "await_results"]
  /\ UNCHANGED <<pool, results_task, management, cfg>>

\* force_shutdown: kill every subprocess that is alive
force_shutdown(P) ==
  [P EXCEPT !.workers = [i \in Fleet(P) |->
     IF is_alive(P.workers[i])
       THEN [P.workers[i] EXCEPT !.process.state = "dead", !.process.sigusr1 = FALSE]
     ELSE P.workers[i]]]

\* shutdown() after its wait for the results task: the task has returned, or
\* it has failed and the await raises its exception, or it was cancelled by
\* an earlier call, or the wait timed out and force_shutdown cancels it.
\* Then the management task is cancelled.
ShutdownResultsAwaited ==
  /\ shutdown_call.pc = "await_results"
  /\ IF results_task = "returned"
       THEN /\ shutdown_call' = [shutdown_call EXCEPT !.pc = "await_management"]
            /\ management' = [management EXCEPT !.pc = "done"]
            /\ UNCHANGED <<pool, results_task>>
     ELSE IF results_task = "crashed"
       THEN /\ shutdown_call' = [shutdown_call EXCEPT !.pc = "raised"]
            /\ UNCHANGED <<pool, results_task, management>>
     ELSE IF results_task = "cancelled"      \* CancelledError, caught
       THEN /\ shutdown_call' = [shutdown_call EXCEPT !.pc = "await_management"]
            /\ management' = [management EXCEPT !.pc = "done"]
            /\ UNCHANGED <<pool, results_task>>
     ELSE /\ shutdown_call' = [shutdown_call EXCEPT !.pc = "await_management"]
          /\ management' = [management EXCEPT !.pc = "done"]
          /\ pool' = force_shutdown(pool)
          /\ results_task' = "cancelled"
  /\ UNCHANGED <<finished_queue, cfg>>

\* History: the messages shutdown logs as queued and drops (a repeated call
\* logs the same messages again)
RECURSIVE DropQueued(_, _)
DropQueued(P, n) ==
  IF n = 0 THEN P
  ELSE LET uuid == P.queued_messages[n].uuid
       IN DropQueued(IF P.fate[uuid] = "dropped" THEN P
                     ELSE Terminal(P, uuid, "dropped"), n - 1)

\* shutdown() after the management task is gone: the queued work is logged
ShutdownFinish ==
  /\ shutdown_call.pc = "await_management"
  /\ pool' = DropQueued(pool, Len(pool.queued_messages))
  /\ shutdown_call' = [shutdown_call EXCEPT !.pc = "done"]
  /\ UNCHANGED <<finished_queue, results_task, management, cfg>>

\* ---------------------------------------------------------- specifications
\* WorkerPool.__init__ and start_working
NewPool(c) ==
  [workers |-> <<>>, queued_messages |-> <<>>, next_worker_id |-> 0,
   shutting_down |-> FALSE, finished_count |-> 0, canceled_count |-> 0,
   discard_count |-> 0, last_used_by_ct |-> [k \in 0..c.ids |-> FALSE],
   queue_cleared |-> FALSE, work_cleared |-> FALSE, management_event |-> FALSE,
   workers_ready |-> FALSE, management_lock |-> FALSE, lock_reentered |-> FALSE,
   accepted |-> <<>>, fate |-> <<>>, overtaken |-> {}, deaths |-> 0]

InitWith(c) ==
  /\ cfg = c
  /\ pool = NewPool(c)
  /\ finished_queue = <<>>
  /\ results_task = "reading"
  /\ management = [pc |-> "wait", w |-> 0, remove_ids |-> {}]
  /\ shutdown_call = [pc |-> "idle", stops |-> <<>>, calls |-> 0]

\* The environment of a run: the pool's settings (min_workers, max_workers),
\* what the producers send (msgs messages with these args, policies and
\* timeouts), how many workers may be created (ids), how many processes die
\* from outside (deaths), how a spawn and a kill may turn out, whether the
\* control plane cancels, and whether and how often the service shuts down.
Scenario ==
  [min_workers |-> 0, max_workers |-> 1, msgs |-> MaxMsgs, ids |-> MaxWorkerIds,
   deaths |-> 0, args |-> {0}, policies |-> {"parallel"}, timeouts |-> {FALSE},
   spawn_ok |-> {TRUE, FALSE}, stop_wait_expires |-> TRUE,
   survived |-> {TRUE, FALSE}, control |-> FALSE, shutdowns |-> FALSE,
   calls |-> 1]

\* The whole pool: producers, the three loops, shutdown, the subprocesses
Init ==
  InitWith([Scenario EXCEPT !.deaths = MaxDeaths, !.timeouts = {TRUE},
                            !.shutdowns = TRUE])

Next ==
  \/ Dispatch
  \/ ManagePass
  \/ ManageNewWorker
  \/ ManageStopWaited
  \/ ManageStopKilled
  \/ ReadResult
  \/ TimeoutCancel
  \/ WorkerReady
  \/ WorkerTakesTask
  \/ WorkerTakesStop
  \/ WorkerDone
  \/ WorkerDies
  \/ ShutdownBegin
  \/ ShutdownStopWorkers
  \/ ShutdownStopStep
  \/ ShutdownGathered
  \/ ShutdownResultsAwaited
  \/ ShutdownFinish

Spec == Init /\ [][Next]_vars

\* The pool in service: producers, the management and results loops and the
\* subprocesses, with no shutdown and no death from outside
NextService ==
  \/ Dispatch
  \/ ManagePass
  \/ ManageNewWorker
  \/ ManageStopWaited
  \/ ManageStopKilled
  \/ ReadResult
  \/ WorkerReady
  \/ WorkerTakesTask
  \/ WorkerTakesStop
  \/ WorkerDone

\* Scaling: a pool of at most one worker that scales down and up again
InitScale == InitWith([Scenario EXCEPT !.ids = MaxScaleIds])

SpecScale == InitScale /\ [][NextService]_vars

\* Queue order: serial duplicates, workers that spawn when started and exit
\* within worker_stop_wait when told to stop
InitFifo ==
  InitWith([Scenario EXCEPT !.ids = MaxScaleIds, !.msgs = MaxFifoMsgs,
                            !.policies = {"serial"}, !.spawn_ok = {TRUE},
                            !.stop_wait_expires = FALSE])

NextFifo ==
  \/ Dispatch
  \/ ManagePass
  \/ ManageNewWorker
  \/ ReadResult
  \/ WorkerReady
  \/ WorkerTakesTask
  \/ WorkerTakesStop
  \/ WorkerDone

SpecFifo == InitFifo /\ [][NextFifo]_vars
\* The management loop keeps running: a pool that keeps at least one worker
\* and may grow to two, with the management task scheduled whenever it can
\* take a step
InitLive ==
  InitWith([Scenario EXCEPT !.min_workers = 1, !.max_workers = 2,
                            !.ids = MaxScaleIds])

SpecLive ==
  /\ InitLive
  /\ [][NextService]_vars
  /\ WF_vars(ManagePass)
  /\ WF_vars(ManageNewWorker)
  /\ WF_vars(ManageStopWaited)
  /\ WF_vars(ManageStopKilled)

\* Duplicate policies: a pool of two workers that neither grows nor shrinks,
\* producers that send every policy for two different (task, args, kwargs)
InitPolicy ==
  InitWith([Scenario EXCEPT !.min_workers = 2, !.max_workers = 2,
                            !.msgs = MaxPolicyMsgs, !.args = ArgsSet,
                            !.policies = Policies, !.spawn_ok = {TRUE}])

NextPolicy ==
  \/ Dispatch
  \/ ManagePass
  \/ ManageNewWorker
  \/ ReadResult
  \/ WorkerReady
  \/ WorkerTakesTask
  \/ WorkerDone

SpecPolicy == InitPolicy /\ [][NextPolicy]_vars

\* Shutdown, called twice, of a pool of at most one worker whose spawn, exit
\* message and kill may each fail; every task of the pool and the shutdown
\* call are scheduled whenever they can take a step, the subprocesses are not
InitShutdown ==
  InitWith([Scenario EXCEPT !.shutdowns = TRUE, !.calls = MaxShutdowns])

NextShutdown ==
  \/ Dispatch
  \/ ManagePass
  \/ ManageNewWorker
  \/ ManageStopWaited
  \/ ManageStopKilled
  \/ ReadResult
  \/ WorkerReady
  \/ WorkerTakesTask
  \/ WorkerTakesStop
  \/ WorkerDone
  \/ ShutdownBegin
  \/ ShutdownStopWorkers
  \/ ShutdownStopStep
  \/ ShutdownGathered
  \/ ShutdownResultsAwaited
  \/ ShutdownFinish

SpecShutdown ==
  /\ InitShutdown
  /\ [][NextShutdown]_vars
  /\ WF_vars(ManagePass)
  /\ WF_vars(ManageNewWorker)
  /\ WF_vars(ManageStopWaited)
  /\ WF_vars(ManageStopKilled)
  /\ WF_vars(ReadResult)
  /\ WF_vars(ShutdownStopWorkers)
  /\ WF_vars(ShutdownStopStep)
  /\ WF_vars(ShutdownGathered)
  /\ WF_vars(ShutdownResultsAwaited)
  /\ WF_vars(ShutdownFinish)

\* Scaling under duplicate policies: a pool that grows from no worker to two
\* at most, producers that send serial and queue_one messages for one
\* (task, args, kwargs)
InitPressure ==
  InitWith([Scenario EXCEPT !.max_workers = 2, !.msgs = MaxPolicyMsgs,
                            !.policies = {"serial", "queue_one"},
                            !.spawn_ok = {TRUE}, !.stop_wait_expires = FALSE])

SpecPressure == InitPressure /\ [][NextFifo]_vars

\* Backpressure: min_workers = 1, max_workers = 4 and more parallel messages
\* than max_workers, sent at any moments; every spawn succeeds and every
\* subprocess serves its inbound channel
InitBackpressure ==
  InitWith([Scenario EXCEPT !.min_workers = 1, !.max_workers = 4,
                            !.msgs = MaxBackMsgs, !.ids = MaxScaleIds,
                            !.spawn_ok = {TRUE}, !.survived = {FALSE},
                            !.stop_wait_expires = FALSE])

SpecBackpressure == InitBackpressure /\ [][NextFifo]_vars

\* ------------------------------------------------------------------ claims
\* C1: the number of messages accepted by dispatch equals received_count, that
\* is finished_count + canceled_count + discard_count + the messages held in
\* the queue + the workers holding a current_task, in every reachable state.
AcceptedEqualsReceived == Len(pool.accepted) = received_count(pool)

Held(P) == {P.workers[i].current_task.uuid : i \in Busy(P)}

Queued(P) == {P.queued_messages[n].uuid : n \in 1..Len(P.queued_messages)}

\* C2: every accepted message has exactly one terminal event over the run:
\* never two, and a message with none yet is still in the queue or is the
\* current_task of a worker of the fleet.
ExactlyOneTerminalEvent ==
  \A u \in 1..Len(pool.accepted) :
    /\ pool.fate[u] # "twice"
    /\ pool.fate[u] = "pending" => u \in Queued(pool) \cup Held(pool)

\* C3: the workers that count for capacity (initialized, spawned, starting,
\* ready) are never more than max_workers.
CapacityAtMostMax == Cardinality(Available(pool)) <= cfg.max_workers

\* C4: while the management loop keeps running, a pool with fewer workers
\* that count for capacity than min_workers eventually has min_workers of
\* them again (unless the run has no worker id left to create them with).
MinWorkersRestored ==
  (Cardinality(Available(pool)) < cfg.min_workers)
    ~> (\/ Cardinality(Available(pool)) >= cfg.min_workers
        \/ UpsNeeded(pool, cfg) > IdsLeft)

\* C4 happens: a worker has left the capacity count (it is in error, retired
\* or removed) and min_workers count for capacity again
MinWorkersRestoredAfterLoss ==
  /\ cfg.min_workers >= 1
  /\ Cardinality(Available(pool)) >= cfg.min_workers
  /\ pool.next_worker_id > Cardinality(Available(pool))
  /\ \/ \E i \in Fleet(pool) : pool.workers[i].status \in {"error", "retired"}
     \/ Cardinality(Fleet(pool)) < pool.next_worker_id

Triple(m) == <<m.task, m.args, m.kwargs>>

RunningMatches(P, m) ==
  {i \in Fleet(P) : /\ P.workers[i].current_task # NoTask
                    /\ P.workers[i].current_task.uuid # m.uuid
                    /\ Triple(P.workers[i].current_task) = Triple(m)}

QueuedMatches(P, m) ==
  {n \in 1..Len(P.queued_messages) :
     /\ P.queued_messages[n].uuid # m.uuid
     /\ Triple(P.queued_messages[n]) = Triple(m)}

\* The duplicate table of the specification
TableAction(P, m) ==
  CASE m.on_duplicate = "serial" ->
         IF RunningMatches(P, m) # {} THEN "queue" ELSE "run"
    [] m.on_duplicate = "queue_one" ->
         IF QueuedMatches(P, m) # {} THEN "discard"
         ELSE IF RunningMatches(P, m) # {} THEN "queue" ELSE "run"
    [] m.on_duplicate = "discard" ->
         IF RunningMatches(P, m) # {} \/ QueuedMatches(P, m) # {} THEN "discard"
         ELSE "run"
    [] OTHER -> "run"

\* C5: what dispatch does with an incoming message follows the duplicate
\* table: a discard adds one to discard_count and places the message nowhere,
\* a queue appends it to the queue, a run starts it on the free worker or,
\* with no free worker (or during shutdown), appends it to the queue.
DispatchFollowsTable ==
  [][Len(pool'.accepted) = Len(pool.accepted) + 1 =>
       LET m == pool'.accepted[Len(pool'.accepted)]
           act == TableAction(pool, m)
           free == FreeWorkers(pool)
       IN IF act = "discard"
            THEN /\ pool'.discard_count = pool.discard_count + 1
                 /\ pool'.queued_messages = pool.queued_messages
                 /\ pool'.workers = pool.workers
          ELSE IF act = "queue" \/ pool.shutting_down \/ free = {}
            THEN /\ pool'.discard_count = pool.discard_count
                 /\ pool'.queued_messages = Append(pool.queued_messages, m)
                 /\ pool'.workers = pool.workers
          ELSE /\ pool'.discard_count = pool.discard_count
               /\ pool'.queued_messages = pool.queued_messages
               /\ \E i \in free :
                    /\ pool'.workers[i].current_task = m
                    /\ \A j \in Fleet(pool) \ {i} : pool'.workers[j] = pool.workers[j]]_vars

\* C5 happens: a queue_one message was discarded because a match was queued,
\* and it is in no queue and on no worker
QueueOneDiscarded ==
  \E u \in 1..Len(pool.accepted) :
    /\ pool.accepted[u].on_duplicate = "queue_one"
    /\ pool.fate[u] = "discard"
    /\ pool.discard_count = 1
    /\ u \notin Queued(pool) \cup Held(pool)
    /\ QueuedMatches(pool, pool.accepted[u]) # {}

\* C6: a serial message is never started on a worker while another worker
\* holds a matching current_task, and a serial message is never discarded.
SerialNeverConcurrent ==
  [][/\ \A i \in Fleet(pool) \cap Fleet(pool') :
          LET m == pool'.workers[i].current_task
          IN (m # NoTask /\ m # pool.workers[i].current_task
                /\ m.on_duplicate = "serial")
             => \A j \in RunningMatches(pool', m) :
                  /\ pool'.workers[j].current_task # pool.workers[j].current_task
                  /\ pool'.workers[j].current_task.on_duplicate # "serial"
     /\ \A u \in 1..Len(pool'.accepted) :
          pool'.accepted[u].on_duplicate = "serial" => pool'.fate[u] # "discard"]_vars

\* C6 happens: a serial message runs, a matching serial message waits in the
\* queue although a worker is free, and nothing was discarded
SerialHeldBack ==
  \E i \in Busy(pool), n \in 1..Len(pool.queued_messages) :
    /\ pool.workers[i].current_task.on_duplicate = "serial"
    /\ pool.queued_messages[n].on_duplicate = "serial"
    /\ Triple(pool.queued_messages[n]) = Triple(pool.workers[i].current_task)
    /\ FreeWorkers(pool) # {}
    /\ pool.discard_count = 0

Uuids(P, T) == {u \in 1..Len(P.accepted) : Triple(P.accepted[u]) = T}

\* The (task, args, kwargs) whose messages so far all carry queue_one
QueueOneTriples(P) ==
  {T \in {Triple(P.accepted[u]) : u \in 1..Len(P.accepted)} :
     \A u \in Uuids(P, T) : P.accepted[u].on_duplicate = "queue_one"}

\* C7: of the messages of a triple that all carry queue_one, at most one is
\* running and at most one is queued; while the first of them is running, all
\* the others but the queued one have been counted in discard_count.
QueueOneBound ==
  \A T \in QueueOneTriples(pool) :
    LET all == Uuids(pool, T)
        running == all \cap Held(pool)
        queued == all \cap Queued(pool)
        discarded == {u \in all : pool.fate[u] = "discard"}
    IN /\ Cardinality(running) <= 1
       /\ Cardinality(queued) <= 1
       /\ Min(all) \in running =>
            /\ all = running \cup queued \cup discarded
            /\ pool.discard_count >= Cardinality(discarded)

\* C7 happens: three queue_one messages of one triple, the first running, one
\* queued, one discarded
QueueOneThree ==
  \E T \in QueueOneTriples(pool) :
    /\ Cardinality(Uuids(pool, T)) >= 3
    /\ Min(Uuids(pool, T)) \in Held(pool)
    /\ Cardinality(Uuids(pool, T) \cap Queued(pool)) = 1
    /\ pool.discard_count = Cardinality(Uuids(pool, T)) - 2

\* C8: a message is never started on a worker while a message appended to the
\* queue before it is queued and eligible to run.
FifoRelease == pool.overtaken = {}

\* The workers the liveness check of manage_old_workers is about: the process
\* is no longer alive and the status is none of retired, error, exited,
\* initialized, spawned
DiedUnexpectedly(P) ==
  {i \in Fleet(P) :
     /\ P.workers[i].status \notin {"retired", "error", "exited", "initialized", "spawned"}
     /\ P.workers[i].process.state = "dead"}

\* A turn of the management loop that ran manage_old_workers to its end
OldWorkersPass == ManagePass /\ ~pool.shutting_down /\ management'.pc = "wait"

\* C9: a worker that died unexpectedly while it held a current_task has, after
\* the next manage_old_workers pass, status error and retired_at set, and
\* canceled_count has gone up by one for its task.
DeadBusyWorkerDiagnosed ==
  [][OldWorkersPass =>
       LET dead == DiedUnexpectedly(pool) \cap Busy(pool)
       IN /\ \A i \in dead : /\ i \in Fleet(pool')
                             /\ pool'.workers[i].status = "error"
                             /\ pool'.workers[i].retired_at
          /\ pool'.canceled_count = pool.canceled_count + Cardinality(dead)]_vars

\* C10: a ready worker with no current_task whose process is no longer alive
\* has status error after manage_old_workers, and finished_count,
\* canceled_count and discard_count are unchanged by it.
DeadIdleWorkerDiagnosed ==
  [][OldWorkersPass /\ DiedUnexpectedly(pool) \cap Busy(pool) = {} =>
       /\ \A i \in DiedUnexpectedly(pool) :
            /\ pool.workers[i].status = "ready" /\ pool.workers[i].current_task = NoTask
            => i \in Fleet(pool') /\ pool'.workers[i].status = "error"
       /\ pool'.canceled_count = pool.canceled_count
       /\ pool'.finished_count = pool.finished_count
       /\ pool'.discard_count = pool.discard_count]_vars
\* C11: the workers a manage_old_workers pass deletes from the fleet are in
\* status retired or error with retired_at set when they are deleted; no
\* worker in any other status is ever removed.
OnlyRetiredRemoved ==
  [][\A i \in Fleet(pool) \ Fleet(pool') :
       /\ pool.workers[i].status \in {"retired", "error"}
       /\ pool.workers[i].retired_at]_vars

\* The workers whose process.start() raised: start() left them in status error
\* with no subprocess and without retired_at
SpawnFailed(P) ==
  {i \in Fleet(P) : /\ P.workers[i].status = "error"
                    /\ P.workers[i].process.state = "none"
                    /\ ~P.workers[i].retired_at}

\* C12: a worker whose spawn failed (status error, never starting or ready) is
\* eventually removed from the fleet by the management loop.
SpawnFailureRemoved ==
  \A i \in 0..(MaxScaleIds - 1) :
    (i \in SpawnFailed(pool)) ~> (i \notin Fleet(pool))

\* C13: a second call of shutdown() performs no status transition on any
\* worker: from the moment shutdown() is called again, every worker keeps the
\* status the first call left it in.
SecondShutdownNoTransition ==
  [][shutdown_call.calls = 2 =>
       \A i \in Fleet(pool) \cap Fleet(pool') :
         pool'.workers[i].status = pool.workers[i].status]_vars

\* C14: under partial failure a call of shutdown() eventually returns, with
\* the results task finished (returned or cancelled), the management task
\* finished and every worker in status retired or error.
ShutdownTerminates ==
  (shutdown_call.pc = "begun") ~>
    (/\ shutdown_call.pc = "done"
     /\ results_task \in {"returned", "cancelled"}
     /\ management.pc = "done"
     /\ \A i \in Fleet(pool) : pool.workers[i].status \in {"retired", "error"})

\* C15: once shutting_down is set, no step gives a worker a current_task it
\* did not hold before, a dispatch that is not discarded appends its message
\* to the queue, and the messages in the queue stay there in their order.
NoStartWhileShuttingDown ==
  [][pool.shutting_down =>
       /\ \A i \in Fleet(pool') :
            pool'.workers[i].current_task # NoTask =>
              /\ i \in Fleet(pool)
              /\ pool.workers[i].current_task = pool'.workers[i].current_task
       /\ Len(pool'.queued_messages) >= Len(pool.queued_messages)
       /\ SubSeq(pool'.queued_messages, 1, Len(pool.queued_messages))
            = pool.queued_messages
       /\ Len(pool'.accepted) > Len(pool.accepted) =>
            \/ pool'.discard_count = pool.discard_count + 1
            \/ pool'.queued_messages =
                 Append(pool.queued_messages, pool'.accepted[Len(pool'.accepted)])]_vars

\* C15 happens: the pool is shutting down and holds a queued message that is
\* not blocked, next to a ready worker without a task
QueuedBesideFreeWorker ==
  /\ pool.shutting_down
  /\ FreeWorkers(pool) # {}
  /\ Unblocked(pool) # {}

\* C16: retired and error are terminal: a worker in status retired or error
\* that stays in the fleet stays in status retired or error.
RetiredErrorTerminal ==
  [][\A i \in Fleet(pool) \cap Fleet(pool') :
       pool.workers[i].status \in {"retired", "error"} =>
         pool'.workers[i].status \in {"retired", "error"}]_vars

\* C17: in every reachable state a worker that holds a current_task has its
\* started_at set and is in status ready or stopping.
BusyWorkerReadyOrStopping ==
  \A i \in Busy(pool) :
    /\ pool.workers[i].started_at
    /\ pool.workers[i].status \in {"ready", "stopping"}

\* The task messages worker w has been sent and the pool has not seen the end
\* of: those in its inbound channel, the one its subprocess is running, and
\* its done events in the outbound channel
Outstanding(w, channel) ==
  Cardinality({n \in 1..Len(w.process.message_queue) :
                 w.process.message_queue[n] = "task"})
  + (IF w.process.state = "running" THEN 1 ELSE 0)
  + Cardinality({n \in 1..Len(channel) :
                   channel[n].worker = w.worker_id /\ channel[n].event = "done"})

\* C18: a step that gives worker i a new current_task leaves it in status
\* ready, with its subprocess past its ready message, that message consumed
\* by the results loop, and no other task of the worker outstanding.
TaskOnlyAfterReady ==
  [][\A i \in Fleet(pool') :
       LET w == pool'.workers[i]
       IN (/\ w.current_task # NoTask
           /\ i \in Fleet(pool) => pool.workers[i].current_task # w.current_task)
          => /\ w.status = "ready"
             /\ w.process.state \notin {"none", "booting"}
             /\ Event(i, "ready", "none") \notin
                  {finished_queue'[n] : n \in 1..Len(finished_queue')}
             /\ Outstanding(w, finished_queue') = 1]_vars

\* C18 happens: a ready worker that has finished a task runs its next one
ReadyWorkerRunsTask ==
  \E i \in Busy(pool) :
    /\ pool.workers[i].status = "ready"
    /\ pool.workers[i].process.state = "running"
    /\ pool.workers[i].finished_count >= 1

\* The queued messages that the duplicate policy holds back: serial and
\* queue_one messages with a running task of the same (task, args, kwargs)
PolicyBlocked(P) ==
  {n \in 1..Len(P.queued_messages) :
     /\ P.queued_messages[n].on_duplicate \in {"serial", "queue_one"}
     /\ \E i \in Busy(P) :
          Triple(P.workers[i].current_task) = Triple(P.queued_messages[n])}

\* C19: a management pass creates no worker when min_workers count for
\* capacity and the busy workers plus the queued messages that the duplicate
\* policy does not hold back are no more than the workers that count.
NoPolicyPressure ==
  [][(/\ management.pc = "wait"
      /\ ~pool.shutting_down
      /\ Cardinality(Available(pool)) >= cfg.min_workers
      /\ get_running_count(pool)
           + Len(pool.queued_messages) - Cardinality(PolicyBlocked(pool))
           <= Cardinality(Available(pool)))
     => pool'.next_worker_id = pool.next_worker_id]_vars

\* C20: a result message that names a worker which is not (or no longer) in
\* the fleet is ignored: the results loop takes it off the channel, leaves
\* the pool as it is and goes on reading.
UnknownWorkerIgnored ==
  [][(/\ results_task = "reading"
      /\ finished_queue # <<>>
      /\ Head(finished_queue) # StopSentinel
      /\ Head(finished_queue).worker \notin Fleet(pool)
      /\ finished_queue' = Tail(finished_queue))
     => /\ pool' = pool
        /\ results_task' = "reading"]_vars

\* The pool has come to rest: no event is unread, no subprocess is booting,
\* running a task or has a message to take, and a management pass changes
\* nothing however much time has gone by
AtRest ==
  /\ finished_queue = <<>>
  /\ results_task = "reading"
  /\ management.pc = "wait"
  /\ ~pool.management_event
  /\ \A i \in Fleet(pool) :
       /\ pool.workers[i].process.state \notin {"booting", "running"}
       /\ pool.workers[i].process.state = "idle" =>
            pool.workers[i].process.message_queue = <<>>
  /\ \A elapsed \in BOOLEAN, old \in SUBSET Stamped(pool) :
       AfterNewWorkers(scale_workers(pool, cfg, elapsed), 0, old).pool = pool

\* C21: with min_workers = 1, max_workers = 4 and N > 4 parallel messages, no
\* more than 4 workers ever count for capacity, and when all N messages are
\* accepted and the pool has come to rest the queue is empty, no worker is
\* busy, work_cleared is set, finished_count = N and canceled_count = 0.
BackpressureCompletes ==
  /\ Cardinality(Available(pool)) <= 4
  /\ (Len(pool.accepted) = cfg.msgs /\ cfg.msgs > 4 /\ AtRest) =>
       /\ pool.queued_messages = <<>>
       /\ Busy(pool) = {}
       /\ pool.work_cleared
       /\ pool.finished_count = cfg.msgs
       /\ pool.canceled_count = 0

\* C22: worker ids are never reused: every worker that a step adds to the
\* fleet has an id that is at least the next_worker_id before the step, hence
\* greater than every id assigned before, and below the next_worker_id after
\* it, which never decreases; each worker carries the id it is filed under.
IdsNeverReused ==
  [][/\ pool'.next_worker_id >= pool.next_worker_id
     /\ \A i \in Fleet(pool') :
          /\ i < pool'.next_worker_id
          /\ pool'.workers[i].worker_id = i
          /\ i \notin Fleet(pool) => i >= pool.next_worker_id]_vars

\* C22 happens: a worker has just been created after an older one was removed
CreatedAfterRemoval ==
  \E i \in Fleet(pool) :
    /\ pool.workers[i].status = "initialized"
    /\ \E j \in 0..(i - 1) : j \notin Fleet(pool)

\* C23: once signal_stop has written the stop sentinel to a worker's inbound
\* channel (stopping_at is set), the worker is given no new task, and a worker
\* in status stopping never goes back to ready.
NoTaskAfterStop ==
  [][\A i \in Fleet(pool) \cap Fleet(pool') :
       /\ pool.workers[i].status = "stopping" =>
            pool'.workers[i].status # "ready"
       /\ (pool.workers[i].stopping_at /\ pool'.workers[i].current_task # NoTask) =>
            pool'.workers[i].current_task = pool.workers[i].current_task]_vars

\* The workers that a step takes out of the capacity count by a stop signal
ScaledDown ==
  {i \in Available(pool) \cap Fleet(pool') : pool'.workers[i].status = "stopping"}

\* C24: a management pass signals stop to at most one worker that counts for
\* capacity, only when more than min_workers count and active_task_ct is not
\* above that count, and only to a worker without current_task; afterwards
\* at least min_workers still count for capacity.
ScaleDownOneIdleAboveMin ==
  [][(ManagePass /\ ~pool.shutting_down) =>
       /\ Cardinality(ScaledDown) <= 1
       /\ \A i \in ScaledDown :
            /\ Cardinality(Available(pool)) > cfg.min_workers
            /\ active_task_ct(pool) <= Cardinality(Available(pool))
            /\ pool.workers[i].current_task = NoTask
            /\ ~pool'.workers[i].is_active_cancel
            /\ Cardinality(Available(pool')) >= cfg.min_workers]_vars

\* C24 happens: with min_workers >= 1, a worker has been signalled to stop
\* and min_workers still count for capacity
ScaledDownToMin ==
  /\ cfg.min_workers >= 1
  /\ Cardinality(Available(pool)) >= cfg.min_workers
  /\ \E i \in Fleet(pool) :
       /\ pool.workers[i].status = "stopping"
       /\ pool.workers[i].process.message_queue = <<"stop">>

\* C25: a message that is in the queue is not discarded by the next step:
\* drain_queue's re-dispatch starts it or puts it back, and does not count
\* it in discard_count.
QueuedNeverDiscarded ==
  [][\A n \in 1..Len(pool.queued_messages) :
       pool'.fate[pool.queued_messages[n].uuid] # "discard"]_vars

\* The results task is about to read the done event of a busy worker
DoneEventNext ==
  /\ results_task = "reading"
  /\ finished_queue # <<>>
  /\ Head(finished_queue).event = "done"
  /\ Head(finished_queue).worker \in Busy(pool)

\* C26: the done event of a busy worker changes exactly one pool counter by
\* one, canceled_count when is_active_cancel is set and the result is
\* '<cancel>', finished_count otherwise; process_finished leaves the worker
\* with no current_task, no started_at, is_active_cancel false and its own
\* finished_count one higher.
DoneCountedOnce ==
  [][(DoneEventNext /\ ReadResult) =>
       LET m == Head(finished_queue)
           w == pool.workers[m.worker]
           canceled == w.is_active_cancel /\ m.result = "<cancel>"
           after == process_finished(pool, m.worker, m.result).workers[m.worker]
       IN /\ pool'.canceled_count = pool.canceled_count + (IF canceled THEN 1 ELSE 0)
          /\ pool'.finished_count = pool.finished_count + (IF canceled THEN 0 ELSE 1)
          /\ pool'.fate[w.current_task.uuid] = IF canceled THEN "canceled" ELSE "finished"
          /\ after.current_task = NoTask
          /\ ~after.started_at
          /\ ~after.is_active_cancel
          /\ after.finished_count = w.finished_count + 1
          /\ pool'.workers[m.worker].finished_count = w.finished_count + 1
          /\ pool'.workers[m.worker].is_active_cancel = FALSE]_vars

\* C26 happens: one task was counted as canceled and a cancel has been sent
\* to a busy worker whose done event, with a result that is not '<cancel>',
\* is the next to be read
CanceledAndFinishedNext ==
  /\ DoneEventNext
  /\ pool.canceled_count = 1
  /\ pool.workers[Head(finished_queue).worker].is_active_cancel
  /\ Head(finished_queue).result = "ok"

\* C27: a worker has a wakeup only while it holds a task with a timeout and
\* is_active_cancel is false; the timeout's cancel_worker sets
\* is_active_cancel, which stays set as long as the worker holds that task,
\* so the worker has no wakeup again for it; cancel_worker changes nothing
\* for a worker without a task.
TimeoutFiresOnce ==
  [][/\ \A i \in Fleet(pool) :
          LET w == pool.workers[i]
          IN /\ next_wakeup(w) =>
                  /\ w.current_task # NoTask
                  /\ w.current_task.timeout
                  /\ ~w.is_active_cancel
             /\ w.current_task = NoTask => cancel_worker(pool, i) = pool
             /\ (TimeoutCancel /\ next_wakeup(w) /\ pool' = cancel_worker(pool, i)) =>
                  /\ pool'.workers[i].is_active_cancel
                  /\ ~next_wakeup(pool'.workers[i])
             /\ (/\ i \in Fleet(pool')
                 /\ w.is_active_cancel
                 /\ w.current_task # NoTask
                 /\ pool'.workers[i].current_task = w.current_task) =>
                  /\ pool'.workers[i].is_active_cancel
                  /\ ~next_wakeup(pool'.workers[i])]_vars

\* C27 happens: the timeout of a task has fired and the task is still
\* executing in the subprocess
TimedOutStillRunning ==
  \E i \in Fleet(pool) :
    /\ pool.workers[i].current_task # NoTask
    /\ pool.workers[i].current_task.timeout
    /\ pool.workers[i].is_active_cancel
    /\ pool.workers[i].status = "ready"
    /\ pool.workers[i].process.state = "running"
    /\ pool.workers[i].process.sigusr1

\* C28: last_used_by_ct holds no timestamp for the current number of busy
\* workers, when that number is at least one.
BusyLevelNotStamped ==
  get_running_count(pool) >= 1 => ~pool.last_used_by_ct[get_running_count(pool)]

\* C28 happens: two workers are busy after a third one has finished its task
BusyBelowStampedLevel ==
  /\ get_running_count(pool) = 2
  /\ pool.last_used_by_ct[3]
  /\ pool.finished_count >= 1

\* The queued messages that a step starts on a worker
StartedFromQueue ==
  {n \in 1..Len(pool.queued_messages) :
     \E i \in Fleet(pool') : pool'.workers[i].current_task = pool.queued_messages[n]}

\* C29: a step whose drain_queue starts a queued message leaves
\* queue_cleared set, also when drain_queue stops because no free worker is
\* left.
DrainSetsQueueCleared ==
  [][StartedFromQueue # {} => pool'.queue_cleared]_vars

\* C30: management_lock is never requested by the task that holds it, and it
\* is free whenever a task suspends, so that a task that asks for it gets it
\* without waiting, whatever the order in which the producers, the
\* management task, the results task and shutdown run.
LockNeverReentered ==
  /\ ~pool.lock_reentered
  /\ ~pool.management_lock

\* C30 happens: process_finished, drain_queue's dispatch, the removal of a
\* worker and the dispatch of the task a worker holds have each taken and
\* left the lock, and shutdown has begun
LockUsedByAllLoops ==
  /\ pool.finished_count >= 1
  /\ pool.queue_cleared
  /\ \E i \in Fleet(pool) : pool.workers[i].current_task # NoTask
  /\ \E i \in 0..(pool.next_worker_id - 1) : i \notin Fleet(pool)
  /\ shutdown_call.pc # "idle"

\* The queued messages that dispatch_task would start if a worker were free
Eligible(P) ==
  {n \in 1..Len(P.queued_messages) :
     get_blocking_action(P, P.queued_messages[n]) = "run"}

\* C31: while the pool is not shutting down, between the steps of its tasks
\* there is not both a worker that is ready without a task and a queued
\* message that is eligible to run.
WorkConserved ==
  ~pool.shutting_down => (FreeWorkers(pool) = {} \/ Eligible(pool) = {})
====
